---------------------------- MODULE Spec2Model ----------------------------
(***************************************************************************)
(* PC814 zero-crossing library: the channel capture processor of           *)
(* src/PC814.c.  uint32_t values keep their 32-bit width: a value is the   *)
(* pair <<hi, lo>> of its two 16-bit halves, and every operation on it is  *)
(* the operation of the C abstract machine on a 32-bit target (unsigned    *)
(* long is 32 bits wide on the Cortex-M targets of the examples).  float   *)
(* values are IEEE-754 binary32: the record [m, e] stands for m * 2^e      *)
(* with 2^23 <= m < 2^24, and every float operation rounds to nearest,     *)
(* ties to even.                                                           *)
(***************************************************************************)
EXTENDS Integers, Sequences, FiniteSets, TLC

(***************************************************************************)
(* uint32_t                                                                *)
(***************************************************************************)
U32(n) == <<n \div 65536, n % 65536>>

U32Zero == <<0, 0>>

U32Max == <<65535, 65535>>

U32Values == (0 .. 65535) \X (0 .. 65535)

\* TRUE when the value is below 2^31, so that ToInt is defined
Small(a) == a[1] < 32768

ToInt(a) == a[1] * 65536 + a[2]

U32Lt(a, b) == a[1] < b[1] \/ (a[1] = b[1] /\ a[2] < b[2])

U32Le(a, b) == a = b \/ U32Lt(a, b)

U32Add(a, b) ==
    LET lo == a[2] + b[2]
        hi == a[1] + b[1] + (lo \div 65536)
    IN  <<hi % 65536, lo % 65536>>

U32Sub(a, b) ==
    LET lo == a[2] - b[2]
        borrow == IF lo < 0 THEN 1 ELSE 0
        hi == a[1] - b[1] - borrow
    IN  <<(hi + 65536) % 65536, (lo + 65536) % 65536>>

U32Inc(a) == U32Add(a, <<0, 1>>)

\* the low 16 bits of the product of two 16-bit halves
MulLo16(x, y) == ((x * (y % 256)) + ((x * (y \div 256)) % 256) * 256) % 65536

\* the full 32-bit product of two 16-bit halves
MulFull16(x, y) ==
    LET p0 == x * (y % 256)
        p1 == x * (y \div 256)
    IN  U32Add(<<p1 \div 256, (p1 % 256) * 256>>, <<p0 \div 65536, p0 % 65536>>)

\* unsigned multiplication, the result reduced modulo 2^32
U32Mul(a, b) ==
    U32Add(MulFull16(a[2], b[2]),
           <<(MulLo16(a[1], b[2]) + MulLo16(a[2], b[1])) % 65536, 0>>)

\* <<a / b, a % b>> for b >= 2 and a >= 2^31 > b, in native arithmetic:
\* a = 2^31 + a1 and 2^31 = q0 * b + r0 + 1
U32DivModHigh(a, b) ==
    LET d == ToInt(b)
        a1 == ToInt(<<a[1] - 32768, a[2]>>)
        q0 == 2147483647 \div d
        r0 == 2147483647 % d
        q1 == a1 \div d
        r1 == a1 % d
        gap == d - 1 - r0
    IN  IF r1 >= gap THEN <<U32(q0 + q1 + 1), U32(r1 - gap)>>
                     ELSE <<U32(q0 + q1), U32(r0 + 1 + r1)>>

\* <<a / b, a % b>>, unsigned and truncating; b is not zero
U32DivMod(a, b) ==
    IF Small(a) /\ Small(b) THEN <<U32(ToInt(a) \div ToInt(b)), U32(ToInt(a) % ToInt(b))>>
    ELSE IF ~Small(b) THEN (IF U32Lt(a, b) THEN <<U32Zero, a>> ELSE <<<<0, 1>>, U32Sub(a, b)>>)
    ELSE IF b = <<0, 1>> THEN <<a, U32Zero>>
    ELSE U32DivModHigh(a, b)

U32Div(a, b) == U32DivMod(a, b)[1]

U32Mod(a, b) == U32DivMod(a, b)[2]

(***************************************************************************)
(* float (IEEE-754 binary32, round to nearest even)                        *)
(***************************************************************************)
F32Zero == [m |-> 0, e |-> 0]

\* the result of x / 0.0f for x > 0
F32Inf == [m |-> 0, e |-> 1]

\* q * 2^e with a remainder: q has at most 24 bits, `half` tells whether the
\* discarded part is below (0), equal to (1) or above (2) half a unit of q
F32RoundUp(q, half) == half = 2 \/ (half = 1 /\ q % 2 = 1)

F32Pack(q, e, half) ==
    LET m == IF F32RoundUp(q, half) THEN q + 1 ELSE q
    IN  IF m = 16777216 THEN [m |-> 8388608, e |-> e + 1] ELSE [m |-> m, e |-> e]

\* the number of bits of 0 < n < 2^31
BitLen(n) == CHOOSE k \in 1 .. 31 : 2 ^ (k - 1) <= n /\ (k = 31 \/ n < 2 ^ k)

\* (float)n for an integer 0 <= n < 2^31
F32FromInt(n) ==
    IF n = 0 THEN F32Zero
    ELSE LET len == BitLen(n)
         IN  IF len <= 24 THEN [m |-> n * (2 ^ (24 - len)), e |-> len - 24]
             ELSE LET s == len - 24
                      q == n \div (2 ^ s)
                      rem == n % (2 ^ s)
                      h == 2 ^ (s - 1)
                      half == IF rem > h THEN 2 ELSE IF rem = h THEN 1 ELSE 0
                  IN  F32Pack(q, s, half)

\* (float)a for a uint32_t
F32FromU32(a) ==
    IF Small(a) THEN F32FromInt(ToInt(a))
    ELSE LET q == a[1] * 256 + (a[2] \div 256)
             rem == a[2] % 256
             half == IF rem > 128 THEN 2 ELSE IF rem = 128 THEN 1 ELSE 0
         IN  F32Pack(q, 8, half)

\* x < y and x <= y for floats that are zero, positive or +infinity
F32Lt(x, y) ==
    IF x = F32Inf THEN FALSE
    ELSE IF y = F32Inf THEN TRUE
    ELSE IF y.m = 0 THEN FALSE
    ELSE IF x.m = 0 THEN TRUE
    ELSE x.e < y.e \/ (x.e = y.e /\ x.m < y.m)

F32Le(x, y) == x = y \/ F32Lt(x, y)

\* x / y for x >= 0 and y >= 0, both finite: the quotient of the mantissas to
\* 28 fractional bits by long division in base 128, then rounded to 24 bits
F32Div(x, y) ==
    IF y.m = 0 THEN F32Inf
    ELSE IF x.m = 0 THEN F32Zero
    ELSE LET d0 == x.m \div y.m
             r0 == x.m % y.m
             d1 == (r0 * 128) \div y.m
             r1 == (r0 * 128) % y.m
             d2 == (r1 * 128) \div y.m
             r2 == (r1 * 128) % y.m
             d3 == (r2 * 128) \div y.m
             r3 == (r2 * 128) % y.m
             d4 == (r3 * 128) \div y.m
             r4 == (r3 * 128) % y.m
             Q == (((d0 * 128 + d1) * 128 + d2) * 128 + d3) * 128 + d4
             s == IF Q >= 268435456 THEN 5 ELSE 4
             q == Q \div (2 ^ s)
             low == Q % (2 ^ s)
             hp == 2 ^ (s - 1)
             half == IF low > hp \/ (low = hp /\ r4 > 0) THEN 2
                     ELSE IF low = hp THEN 1 ELSE 0
         IN  F32Pack(q, x.e - y.e + s - 28, half)

\* x * y for finite x >= 0 and y >= 0
F32Mul(x, y) ==
    IF x.m = 0 \/ y.m = 0 THEN F32Zero
    ELSE LET ah == x.m \div 4096
             al == x.m % 4096
             bh == y.m \div 4096
             bl == y.m % 4096
             mid == ah * bl + al * bh
             lowsum == (mid % 4096) * 4096 + al * bl
             hi == ah * bh + (mid \div 4096) + (lowsum \div 16777216)
             lo == lowsum % 16777216
         IN  IF hi >= 8388608
             THEN F32Pack(hi, x.e + y.e + 24,
                          IF lo > 8388608 THEN 2 ELSE IF lo = 8388608 THEN 1 ELSE 0)
             ELSE LET q == 2 * hi + (lo \div 8388608)
                      rem == lo % 8388608
                  IN  F32Pack(q, x.e + y.e + 23,
                              IF rem > 4194304 THEN 2
                              ELSE IF rem = 4194304 THEN 1 ELSE 0)

\* fabsf(x - y) for finite x >= 0 and y >= 0: the smaller one is aligned to
\* the larger one with three more bits, the last of them sticky
F32AbsDiff(x, y) ==
    IF x = y THEN F32Zero
    ELSE LET hi == IF F32Lt(x, y) THEN y ELSE x
             lo == IF F32Lt(x, y) THEN x ELSE y
         IN  IF lo.m = 0 THEN hi
             ELSE LET d == hi.e - lo.e
                      q == IF d > 27 THEN 0 ELSE (lo.m * 8) \div (2 ^ d)
                      rem == IF d > 27 THEN 1 ELSE (lo.m * 8) % (2 ^ d)
                      aligned == IF rem # 0 /\ q % 2 = 0 THEN q + 1 ELSE q
                      r == F32FromInt(hi.m * 8 - aligned)
                  IN  [m |-> r.m, e |-> r.e + hi.e - 3]

\* x + y for finite x >= 0 and y >= 0, aligned as in F32AbsDiff
F32Add(x, y) ==
    LET hi == IF F32Lt(x, y) THEN y ELSE x
        lo == IF F32Lt(x, y) THEN x ELSE y
    IN  IF lo.m = 0 THEN hi
        ELSE LET d == hi.e - lo.e
                 q == IF d > 27 THEN 0 ELSE (lo.m * 8) \div (2 ^ d)
                 rem == IF d > 27 THEN 1 ELSE (lo.m * 8) % (2 ^ d)
                 aligned == IF rem # 0 /\ q % 2 = 0 THEN q + 1 ELSE q
                 r == F32FromInt(hi.m * 8 + aligned)
             IN  [m |-> r.m, e |-> r.e + hi.e - 3]

\* -1.0f, the only negative value that the functions return
F32MinusOne == [m |-> 8388608, e |-> -23, sign |-> -1]

(***************************************************************************)
(* Program constants and enumerations                                      *)
(***************************************************************************)
PC814_DEFAULT_FREQ == 50

PC814_DEFAULT_TOLERANCE == 5

PC814_OK == "PC814_OK"

PC814_ERROR == "PC814_ERROR"

PC814_NOT_INITIALIZED == "PC814_NOT_INITIALIZED"

\* the status of a function that returns void
Void == "void"

\* the call did not return: the integer division by zero trapped
NoReturn == "no_return"

PullConfigs == {"PC814_PULL_UP", "PC814_PULL_DOWN"}

EdgeTypes == {"PC814_EDGE_RISING", "PC814_EDGE_FALLING"}

(***************************************************************************)
(* Bounds and the inputs that are enumerated                               *)
(***************************************************************************)
\* process_capture is not called any more once a counter has this value
MaxSamples == 2

\* arguments of pc814_set_expected_frequency
ExpectedArgs == { U32(50), U32(60), U32(55) }

\* arguments of pc814_set_frequency_tolerance: 30 %, 0 % (refused), 51 % (refused)
ToleranceArgs == { F32FromInt(30), F32Zero, F32FromInt(51) }

\* A port: which of its function pointers are set, and the values that its
\* timer_get_capture_value, timer_get_frequency and get_time_us return (a
\* capture or a frequency of 0 is what pc814_process_capture refuses).
\*   PortMains: a 100 kHz tick.  16 -> 2016 is 20000 us (50 Hz), 2016 -> 3939
\*     is 19230 us (52 Hz), 16 -> 3939 is 39230 us (25 Hz).
\*   PortDrift: a 100 kHz tick.  2016 -> 3867 is 18510 us (54 Hz), 2016 -> 4873
\*     is 28570 us (35 Hz), 3867 -> 4873 is 10060 us (99 Hz).
\*   PortFast: a 1 MHz tick.  16 -> 20016 is 20000 ticks (50 Hz) and
\*     0xFFFFFFF0 -> 16 is a wrap of the counter.
\*   PortCore: an 84 MHz tick.  16 -> 96 is 80 ticks, less than a microsecond.
\*   PortNoClock: get_time_us is NULL.  PortNoTimer: timer_get_frequency is NULL.
\* listeners are the arguments the application gives to pc814_set_callback:
\* TRUE for a function, FALSE for NULL.
PortMains ==
    [ timer_get_capture_value |-> TRUE, timer_get_frequency |-> TRUE,
      get_time_us |-> TRUE,
      captures |-> { U32Zero, U32(16), U32(2016), U32(3939) },
      frequencies |-> { U32Zero, U32(100000) },
      times |-> { U32(1000) },
      listeners |-> { } ]

PortDrift ==
    [ timer_get_capture_value |-> TRUE, timer_get_frequency |-> TRUE,
      get_time_us |-> TRUE,
      captures |-> { U32(2016), U32(3867), U32(4873) },
      frequencies |-> { U32(100000) },
      times |-> { U32(1000) },
      listeners |-> BOOLEAN ]

PortFast ==
    [ timer_get_capture_value |-> TRUE, timer_get_frequency |-> TRUE,
      get_time_us |-> TRUE,
      captures |-> { U32(16), U32(20016), <<65535, 65520>> },
      frequencies |-> { U32(1000000) },
      times |-> { U32(1000), <<65535, 65280>> },
      listeners |-> { } ]

PortCore ==
    [ timer_get_capture_value |-> TRUE, timer_get_frequency |-> TRUE,
      get_time_us |-> TRUE,
      captures |-> { U32(16), U32(96) },
      frequencies |-> { U32(84000000) },
      times |-> { U32(1000) },
      listeners |-> { } ]

PortNoClock ==
    [ timer_get_capture_value |-> TRUE, timer_get_frequency |-> TRUE,
      get_time_us |-> FALSE,
      captures |-> { U32(16), U32(2016) },
      frequencies |-> { U32(100000) },
      times |-> { U32(1000) },
      listeners |-> BOOLEAN ]

PortNoTimer ==
    [ timer_get_capture_value |-> TRUE, timer_get_frequency |-> FALSE,
      get_time_us |-> TRUE,
      captures |-> { U32(16) },
      frequencies |-> { U32(100000) },
      times |-> { U32(1000) },
      listeners |-> { } ]

PortConfigs == { PortMains, PortDrift, PortFast, PortCore, PortNoClock, PortNoTimer }

(***************************************************************************)
(* State                                                                   *)
(***************************************************************************)
VARIABLES
    port,      \* pc814_port_t: the function pointers that are not NULL
    handle,    \* pc814_handle_t
    status,    \* what the last call returned
    call,      \* the last call: its name and the values the port gave it
    mean,      \* the exact mean of the periods of the valid samples since the
               \* statistics were last reset: their sum is q * n + r, r < n
    phases,    \* the pc814_handle_t of the phases a, b and c
    threephase, \* pc814_threephase_t
    time_us,   \* what get_time_us returns, where the port has it
    task       \* the call that the main program is in the middle of, which an
               \* interrupt can come into: its position, its locals and what
               \* has happened since it began

vars == <<port, handle, status, call, mean, phases, threephase, time_us, task>>

\* the main program is between two calls
Idle == [pc |-> "idle", calls |-> 0]

ZeroStatistics ==
    [ total_zc_count |-> U32Zero, valid_zc_count |-> U32Zero,
      invalid_zc_count |-> U32Zero, min_period_us |-> U32Zero,
      max_period_us |-> U32Zero, avg_period_us |-> U32Zero,
      min_frequency_hz |-> F32Zero, max_frequency_hz |-> F32Zero,
      avg_frequency_hz |-> F32Zero ]

ZeroData ==
    [ period_us |-> U32Zero, frequency_hz |-> U32Zero, timestamp_us |-> U32Zero,
      count |-> U32Zero, valid |-> FALSE ]

\* the handle after pc814_init(handle, port, pull_config, edge_type)
pc814_init(pull_config, edge_type) ==
    [ pull_config |-> pull_config,
      edge_type |-> edge_type,
      data |-> ZeroData,
      last_capture_time |-> U32Zero,
      last_capture_value |-> U32Zero,
      initialized |-> TRUE,
      expected_frequency |-> U32(PC814_DEFAULT_FREQ),
      frequency_tolerance |-> F32FromInt(PC814_DEFAULT_TOLERANCE),
      callback |-> FALSE,
      statistics |-> ZeroStatistics,
      period_sum |-> U32Zero,
      period_count |-> U32Zero ]

(***************************************************************************)
(* pc814_process_capture and what it calls                                 *)
(***************************************************************************)
\* abs((int32_t)freq - (int32_t)expected), as the unsigned value of the result
AbsDiff(freq, expected) ==
    LET d == U32Sub(freq, expected)
    IN  IF Small(d) THEN d ELSE U32Sub(U32Zero, d)

validate_frequency(freq, expected, tolerance) ==
    IF freq = U32Zero \/ expected = U32Zero THEN FALSE
    ELSE LET diff == F32FromU32(AbsDiff(freq, expected))
             percent == F32Mul(F32Div(diff, F32FromU32(expected)), F32FromInt(100))
         IN  F32Le(percent, tolerance)

\* a faulty variant: the capture value is not checked
RejectedInput_frequencyOnly(current_capture, timer_freq) ==
    timer_freq = U32Zero

\* the call is refused before anything is stored
RejectedInput(current_capture, timer_freq) ==
    current_capture = U32Zero \/ timer_freq = U32Zero

\* a faulty variant: the first edge is taken for a second one
HasPreviousCapture_always(h) == TRUE

\* there is a previous capture to take the period from
HasPreviousCapture(h) == h.last_capture_value # U32Zero

\* the tick delta between the previous and the current capture
PeriodTicks(last_capture_value, current_capture) ==
    IF U32Lt(last_capture_value, current_capture)
    THEN U32Sub(current_capture, last_capture_value)
    ELSE U32Add(U32Sub(U32Max, last_capture_value), current_capture)

\* (period_ticks * 1000000UL) / timer_freq in unsigned 32-bit arithmetic
PeriodUs(period_ticks, timer_freq) ==
    U32Div(U32Mul(period_ticks, U32(1000000)), timer_freq)

\* 1000000UL / period_us.  A period of 0 makes it a division by zero, which
\* is undefined: the call traps, or the division yields 0 and the call goes on
FrequencyHz(period_us) ==
    IF period_us = U32Zero THEN { [trap |-> TRUE, value |-> U32Zero],
                                  [trap |-> FALSE, value |-> U32Zero] }
    ELSE { [trap |-> FALSE, value |-> U32Div(U32(1000000), period_us)] }

\* pc814_data_t after a sample
UpdateData(data, period_us, freq_hz, current_time, freq_valid) ==
    [ period_us |-> period_us,
      frequency_hz |-> freq_hz,
      timestamp_us |-> current_time,
      count |-> U32Inc(data.count),
      valid |-> freq_valid ]

\* the average is taken only while the count has not wrapped to 0
AveragePeriod(h, period_sum, period_count) ==
    IF period_count # U32Zero THEN U32Div(period_sum, period_count)
    ELSE h.statistics.avg_period_us

AverageFrequency(h, period_sum, period_count) ==
    IF period_count # U32Zero
    THEN F32Div(F32FromInt(1000000), F32FromU32(U32Div(period_sum, period_count)))
    ELSE h.statistics.avg_frequency_hz

\* the statistics branch of a valid sample: the handle with its statistics,
\* period_sum and period_count updated
UpdateStatisticsValid(h, period_us, freq_hz) ==
    LET st == h.statistics
        freq_float == F32FromU32(freq_hz)
        sum == U32Add(h.period_sum, period_us)
        cnt == U32Inc(h.period_count)
    IN  [ h EXCEPT
            !.statistics =
                [ total_zc_count |-> U32Inc(st.total_zc_count),
                  valid_zc_count |-> U32Inc(st.valid_zc_count),
                  invalid_zc_count |-> st.invalid_zc_count,
                  min_period_us |->
                      IF st.min_period_us = U32Zero \/ U32Lt(period_us, st.min_period_us)
                      THEN period_us ELSE st.min_period_us,
                  max_period_us |->
                      IF U32Lt(st.max_period_us, period_us)
                      THEN period_us ELSE st.max_period_us,
                  avg_period_us |-> AveragePeriod(h, sum, cnt),
                  min_frequency_hz |->
                      IF st.min_frequency_hz = F32Zero \/ F32Lt(freq_float, st.min_frequency_hz)
                      THEN freq_float ELSE st.min_frequency_hz,
                  max_frequency_hz |->
                      IF F32Lt(st.max_frequency_hz, freq_float)
                      THEN freq_float ELSE st.max_frequency_hz,
                  avg_frequency_hz |-> AverageFrequency(h, sum, cnt) ],
            !.period_sum = sum,
            !.period_count = cnt ]

\* a faulty variant: the invalid sample is not added to the total
UpdateStatisticsInvalid_noTotal(h) ==
    [ h EXCEPT !.statistics.invalid_zc_count = U32Inc(@) ]

\* a faulty variant: the invalid sample is counted into the average
UpdateStatisticsInvalid_counted(h) ==
    [ h EXCEPT
        !.statistics.total_zc_count = U32Inc(@),
        !.statistics.invalid_zc_count = U32Inc(@),
        !.period_count = U32Inc(@) ]

\* the statistics branch of an invalid sample
UpdateStatisticsInvalid(h) ==
    [ h EXCEPT
        !.statistics.total_zc_count = U32Inc(@),
        !.statistics.invalid_zc_count = U32Inc(@) ]

\* the sample branch: data, then statistics
StoreSample(h, period_us, freq_hz, current_time) ==
    LET freq_valid == validate_frequency(freq_hz, h.expected_frequency,
                                         h.frequency_tolerance)
        h1 == [ h EXCEPT !.data = UpdateData(h.data, period_us, freq_hz,
                                              current_time, freq_valid) ]
    IN  IF freq_valid THEN UpdateStatisticsValid(h1, period_us, freq_hz)
                      ELSE UpdateStatisticsInvalid(h1)

\* a faulty variant: the listener is called for every sample
CallbackCalls_everySample(h) ==
    IF h.callback THEN << h.data >> ELSE << >>

\* the calls of the listener after the sample is stored in h, each with the
\* data that handle->data holds when the listener is called
CallbackCalls(h) ==
    IF h.callback /\ h.data.valid THEN << h.data >> ELSE << >>

\* what is stored at the end of every call that is not refused
RecordCapture(h, current_capture, current_time) ==
    [ h EXCEPT !.last_capture_value = current_capture,
               !.last_capture_time = current_time ]

\* The results that pc814_process_capture(handle) can have, the port returning
\* current_capture, timer_freq and now: each is the handle after the call, the
\* status returned and the calls of the listener made during the call.
pc814_process_capture(h, p, current_capture, timer_freq, now) ==
    IF ~h.initialized
    THEN { [handle |-> h, status |-> PC814_NOT_INITIALIZED, callbacks |-> << >>] }
    ELSE IF ~p.timer_get_capture_value \/ ~p.timer_get_frequency
    THEN { [handle |-> h, status |-> PC814_ERROR, callbacks |-> << >>] }
    ELSE IF RejectedInput(current_capture, timer_freq)
    THEN { [handle |-> h, status |-> PC814_ERROR, callbacks |-> << >>] }
    ELSE
      LET current_time == IF p.get_time_us THEN now ELSE U32Zero
      IN  IF HasPreviousCapture(h)
          THEN LET period_us == PeriodUs(PeriodTicks(h.last_capture_value,
                                                     current_capture), timer_freq)
               IN  { IF f.trap
                     THEN [handle |-> h, status |-> NoReturn, callbacks |-> << >>]
                     ELSE LET stored == StoreSample(h, period_us, f.value,
                                                    current_time)
                          IN  [ handle |-> RecordCapture(stored, current_capture,
                                                         current_time),
                                status |-> PC814_OK,
                                callbacks |-> CallbackCalls(stored) ]
                     : f \in FrequencyHz(period_us) }
          ELSE { [ handle |-> RecordCapture(h, current_capture, current_time),
                   status |-> PC814_OK, callbacks |-> << >> ] }

(***************************************************************************)
(* The other operations on a handle                                        *)
(***************************************************************************)
pc814_set_expected_frequency(h, freq) ==
    IF freq = U32(50) \/ freq = U32(60) THEN [h EXCEPT !.expected_frequency = freq]
    ELSE h

pc814_set_frequency_tolerance(h, tolerance) ==
    IF F32Lt(F32Zero, tolerance) /\ F32Le(tolerance, F32FromInt(50))
    THEN [h EXCEPT !.frequency_tolerance = tolerance]
    ELSE h

pc814_reset(h) ==
    [ h EXCEPT !.last_capture_value = U32Zero,
               !.last_capture_time = U32Zero,
               !.data.count = U32Zero,
               !.data.valid = FALSE ]

\* callback is whether the pointer given is not NULL
pc814_set_callback(h, callback) == [h EXCEPT !.callback = callback]

pc814_reset_statistics(h) ==
    [ h EXCEPT !.statistics = ZeroStatistics,
               !.period_sum = U32Zero,
               !.period_count = U32Zero ]

(***************************************************************************)
(* PC814_ThreePhase.c: the functions                                       *)
(***************************************************************************)
PC814_DEFAULT_SEQUENCE_TOLERANCE == 10

PC814_SEQUENCE_ABC == "PC814_SEQUENCE_ABC"

PC814_SEQUENCE_ACB == "PC814_SEQUENCE_ACB"

PC814_SEQUENCE_UNKNOWN == "PC814_SEQUENCE_UNKNOWN"

PC814_SEQUENCE_ERROR == "PC814_SEQUENCE_ERROR"

\* fmodf(angle, 360.0f) for 360 <= angle < 720, where it is angle - 360 without
\* rounding; time_diff < period_us after the reduction modulo the period, so the
\* angle that is normalised is never above 360
Fmod360(angle) ==
    IF F32Lt(angle, F32FromInt(720)) THEN F32AbsDiff(angle, F32FromInt(360))
    ELSE F32Zero

\* the time difference before it is reduced modulo the period
TimeDiff(time1, time2) ==
    IF U32Le(time1, time2) THEN U32Sub(time2, time1)
    ELSE U32Add(U32Add(U32Sub(U32Max, time1), time2), U32(1))

\* a faulty variant: the angle is not brought back below 360
calculate_phase_angle_raw(time1, time2, period_us) ==
    IF period_us = U32Zero THEN F32Zero
    ELSE F32Mul(F32Div(F32FromU32(U32Mod(TimeDiff(time1, time2), period_us)),
                       F32FromU32(period_us)),
                F32FromInt(360))

calculate_phase_angle(time1, time2, period_us) ==
    IF period_us = U32Zero THEN F32Zero
    ELSE LET time_diff == U32Mod(TimeDiff(time1, time2), period_us)
             angle == F32Mul(F32Div(F32FromU32(time_diff), F32FromU32(period_us)),
                             F32FromInt(360))
         IN  IF F32Le(F32FromInt(360), angle) THEN Fmod360(angle) ELSE angle

\* diff_240 of is_angle_120 and is_angle_240: the distance to 240 around the circle
Diff240(angle) ==
    LET diff_240 == F32AbsDiff(angle, F32FromInt(240))
    IN  IF F32Lt(F32FromInt(180), diff_240)
        THEN F32AbsDiff(F32FromInt(360), diff_240)
        ELSE diff_240

\* a faulty variant: only the distance to 120 is looked at
is_angle_120_only(angle, tolerance) ==
    F32Le(F32AbsDiff(angle, F32FromInt(120)), tolerance)

is_angle_120(angle, tolerance) ==
    \/ F32Le(F32AbsDiff(angle, F32FromInt(120)), tolerance)
    \/ F32Le(Diff240(angle), tolerance)

is_angle_240(angle, tolerance) ==
    /\ F32Le(Diff240(angle), tolerance)
    /\ F32Lt(tolerance, F32AbsDiff(angle, F32FromInt(120)))

ZeroRelationship ==
    [ phase_a_zc_time |-> U32Zero, phase_b_zc_time |-> U32Zero,
      phase_c_zc_time |-> U32Zero,
      phase_ab_angle |-> F32Zero, phase_bc_angle |-> F32Zero,
      phase_ca_angle |-> F32Zero,
      phase_a_freq |-> U32Zero, phase_b_freq |-> U32Zero, phase_c_freq |-> U32Zero,
      valid |-> FALSE ]

\* the pc814_threephase_t after pc814_threephase_init; its three handles are
\* the variable phases
pc814_threephase_init ==
    [ sequence |-> PC814_SEQUENCE_UNKNOWN,
      relationship |-> ZeroRelationship,
      last_update_time |-> U32Zero,
      sequence_tolerance |-> F32FromInt(PC814_DEFAULT_SEQUENCE_TOLERANCE),
      initialized |-> TRUE ]

\* a faulty variant: the second rule asks for both angles
DetectByAngles_both(ab_angle, bc_angle, ca_angle, tolerance) ==
    IF /\ is_angle_120(ab_angle, tolerance) /\ is_angle_120(bc_angle, tolerance)
       /\ is_angle_120(ca_angle, tolerance)
    THEN PC814_SEQUENCE_ABC
    ELSE IF is_angle_240(ab_angle, tolerance) /\ is_angle_240(bc_angle, tolerance)
    THEN PC814_SEQUENCE_ACB
    ELSE PC814_SEQUENCE_ERROR

\* pc814_threephase_detect_sequence once the relationship is known to be valid
DetectByAngles(ab_angle, bc_angle, ca_angle, tolerance) ==
    LET ab_120 == is_angle_120(ab_angle, tolerance)
        bc_120 == is_angle_120(bc_angle, tolerance)
        ca_120 == is_angle_120(ca_angle, tolerance)
        ab_240 == is_angle_240(ab_angle, tolerance)
        bc_240 == is_angle_240(bc_angle, tolerance)
    IN  IF ab_120 /\ bc_120 /\ ca_120 THEN PC814_SEQUENCE_ABC
        ELSE IF (ab_240 \/ bc_240) /\ ca_120 THEN PC814_SEQUENCE_ACB
        ELSE IF ab_240 /\ bc_240 THEN PC814_SEQUENCE_ACB
        ELSE PC814_SEQUENCE_ERROR

pc814_threephase_detect_sequence(tp) ==
    IF ~tp.relationship.valid THEN PC814_SEQUENCE_ERROR
    ELSE DetectByAngles(tp.relationship.phase_ab_angle,
                        tp.relationship.phase_bc_angle,
                        tp.relationship.phase_ca_angle,
                        tp.sequence_tolerance)

\* pc814_read_data returns PC814_OK and the data is valid
ReadValid(h) == h.initialized /\ h.data.valid

\* the relationship that a pass stores from the data of the three handles,
\* its valid flag still the one of before
MeasureRelationship(tp, ph) ==
    LET data_a == ph.a.data
        data_b == ph.b.data
        data_c == ph.c.data
        avg_period == U32Div(U32Add(U32Add(data_a.period_us, data_b.period_us),
                                    data_c.period_us), U32(3))
    IN  [ tp.relationship EXCEPT
            !.phase_a_zc_time = data_a.timestamp_us,
            !.phase_b_zc_time = data_b.timestamp_us,
            !.phase_c_zc_time = data_c.timestamp_us,
            !.phase_a_freq = data_a.frequency_hz,
            !.phase_b_freq = data_b.frequency_hz,
            !.phase_c_freq = data_c.frequency_hz,
            !.phase_ab_angle = calculate_phase_angle(data_a.timestamp_us,
                                                     data_b.timestamp_us, avg_period),
            !.phase_bc_angle = calculate_phase_angle(data_b.timestamp_us,
                                                     data_c.timestamp_us, avg_period),
            !.phase_ca_angle = calculate_phase_angle(data_c.timestamp_us,
                                                     data_a.timestamp_us, avg_period) ]

\* the handle after pc814_threephase_process and the status returned
pc814_threephase_process(tp, ph) ==
    IF ~tp.initialized THEN [threephase |-> tp, status |-> PC814_ERROR]
    ELSE IF ~ReadValid(ph.a) \/ ~ReadValid(ph.b) \/ ~ReadValid(ph.c)
    THEN [threephase |-> tp, status |-> PC814_ERROR]
    ELSE LET measured == [tp EXCEPT !.relationship = MeasureRelationship(tp, ph)]
         IN  [ threephase |->
                   [ measured EXCEPT
                       !.sequence = pc814_threephase_detect_sequence(measured),
                       !.relationship.valid = TRUE,
                       !.last_update_time = ph.a.data.timestamp_us ],
               status |-> PC814_OK ]

pc814_threephase_get_sequence(tp) == tp.sequence

pc814_threephase_is_sequence_correct(tp) == tp.sequence = PC814_SEQUENCE_ABC

NoSwap == [swap_ab |-> FALSE, swap_bc |-> FALSE, swap_ca |-> FALSE]

\* a faulty variant: the third rule is missing
SwapByAngles_noThird(ab_angle, bc_angle, ca_angle, tolerance) ==
    IF is_angle_120(ab_angle, tolerance) /\ is_angle_120(ca_angle, tolerance)
    THEN [NoSwap EXCEPT !.swap_bc = TRUE]
    ELSE IF is_angle_120(bc_angle, tolerance) /\ is_angle_120(ca_angle, tolerance)
    THEN [NoSwap EXCEPT !.swap_ab = TRUE]
    ELSE NoSwap

\* the flags that pc814_threephase_get_swap_recommendation sets for the verdict
\* PC814_SEQUENCE_ERROR
SwapByAngles(ab_angle, bc_angle, ca_angle, tolerance) ==
    IF is_angle_120(ab_angle, tolerance) /\ is_angle_120(ca_angle, tolerance)
    THEN [NoSwap EXCEPT !.swap_bc = TRUE]
    ELSE IF is_angle_120(bc_angle, tolerance) /\ is_angle_120(ca_angle, tolerance)
    THEN [NoSwap EXCEPT !.swap_ab = TRUE]
    ELSE IF is_angle_120(ab_angle, tolerance) /\ is_angle_120(bc_angle, tolerance)
    THEN [NoSwap EXCEPT !.swap_ca = TRUE]
    ELSE NoSwap

\* a faulty variant: a reversed sequence asks for A and B to be swapped
SwapForReversed_ab == [NoSwap EXCEPT !.swap_ab = TRUE]

\* the flags for the verdict PC814_SEQUENCE_ACB
SwapForReversed == [NoSwap EXCEPT !.swap_bc = TRUE]

\* the status returned and the three flags written
pc814_threephase_get_swap_recommendation(tp) ==
    IF ~tp.relationship.valid THEN [status |-> PC814_ERROR, swap |-> NoSwap]
    ELSE IF tp.sequence = PC814_SEQUENCE_ACB
    THEN [status |-> PC814_OK, swap |-> SwapForReversed]
    ELSE IF tp.sequence = PC814_SEQUENCE_ERROR
    THEN [ status |-> PC814_OK,
           swap |-> SwapByAngles(tp.relationship.phase_ab_angle,
                                 tp.relationship.phase_bc_angle,
                                 tp.relationship.phase_ca_angle,
                                 tp.sequence_tolerance) ]
    ELSE [status |-> PC814_OK, swap |-> NoSwap]

\* the buffer of pc814_threephase_get_correction_message when nothing is written
Unwritten == "unwritten"

\* the message for the verdict and the flags of a successful recommendation
MessageFor(sequence, swap) ==
    IF sequence = PC814_SEQUENCE_ABC THEN "Phase sequence is CORRECT (ABC)"
    ELSE IF swap.swap_ab /\ swap.swap_bc /\ swap.swap_ca
    THEN "Error: All phases need correction - check connections"
    ELSE IF swap.swap_ab THEN "SWAP phases A and B to correct sequence"
    ELSE IF swap.swap_bc THEN "SWAP phases B and C to correct sequence"
    ELSE IF swap.swap_ca THEN "SWAP phases C and A to correct sequence"
    ELSE "Phase sequence error - check all connections"

\* the status and the message for the result of the recommendation
MessageOfRecommendation(sequence, r) ==
    IF r.status # PC814_OK
    THEN [ status |-> PC814_ERROR,
           message |-> "Error: Cannot determine phase correction" ]
    ELSE [ status |-> PC814_OK, message |-> MessageFor(sequence, r.swap) ]

\* the status returned and the message written; no message is longer than
\* the 63 characters that max_len leaves room for
pc814_threephase_get_correction_message(tp, max_len) ==
    IF max_len < 64 THEN [status |-> PC814_ERROR, message |-> Unwritten]
    ELSE MessageOfRecommendation(tp.sequence,
                                 pc814_threephase_get_swap_recommendation(tp))

pc814_threephase_set_tolerance(tp, tolerance) ==
    IF F32Lt(F32Zero, tolerance) /\ F32Le(tolerance, F32FromInt(30))
    THEN [tp EXCEPT !.sequence_tolerance = tolerance]
    ELSE tp

\* a faulty variant: a difference of 2 Hz is allowed
pc814_threephase_is_synchronized_within2(tp) ==
    /\ tp.relationship.valid
    /\ LET freq_a == tp.relationship.phase_a_freq
           freq_b == tp.relationship.phase_b_freq
           freq_c == tp.relationship.phase_c_freq
           max_ab == IF U32Lt(freq_b, freq_a) THEN freq_a ELSE freq_b
           max_freq == IF U32Lt(freq_c, max_ab) THEN max_ab ELSE freq_c
           min_ab == IF U32Lt(freq_a, freq_b) THEN freq_a ELSE freq_b
           min_freq == IF U32Lt(min_ab, freq_c) THEN min_ab ELSE freq_c
       IN  U32Le(U32Sub(max_freq, min_freq), U32(2))

pc814_threephase_is_synchronized(tp) ==
    /\ tp.relationship.valid
    /\ LET freq_a == tp.relationship.phase_a_freq
           freq_b == tp.relationship.phase_b_freq
           freq_c == tp.relationship.phase_c_freq
           max_ab == IF U32Lt(freq_b, freq_a) THEN freq_a ELSE freq_b
           max_freq == IF U32Lt(freq_c, max_ab) THEN max_ab ELSE freq_c
           min_ab == IF U32Lt(freq_a, freq_b) THEN freq_a ELSE freq_b
           min_freq == IF U32Lt(min_ab, freq_c) THEN min_ab ELSE freq_c
       IN  U32Le(U32Sub(max_freq, min_freq), U32(1))

\* a faulty variant: the sum of the deviations is not divided by three
ImbalanceOfDeviations_sum(ab_dev, bc_dev, ca_dev) ==
    F32Mul(F32Div(F32Add(F32Add(ab_dev, bc_dev), ca_dev), F32FromInt(120)),
           F32FromInt(100))

\* the percentage for the three deviations from 120 degrees
ImbalanceOfDeviations(ab_dev, bc_dev, ca_dev) ==
    F32Mul(F32Div(F32Div(F32Add(F32Add(ab_dev, bc_dev), ca_dev), F32FromInt(3)),
                  F32FromInt(120)),
           F32FromInt(100))

pc814_threephase_get_imbalance(tp) ==
    IF ~tp.relationship.valid THEN F32MinusOne
    ELSE ImbalanceOfDeviations(
             F32AbsDiff(tp.relationship.phase_ab_angle, F32FromInt(120)),
             F32AbsDiff(tp.relationship.phase_bc_angle, F32FromInt(120)),
             F32AbsDiff(tp.relationship.phase_ca_angle, F32FromInt(120)))

\* a faulty variant: the verdict survives the reset
pc814_threephase_reset_keepsVerdict(tp) ==
    [tp EXCEPT !.relationship = ZeroRelationship]

pc814_threephase_reset(tp) ==
    [ tp EXCEPT !.sequence = PC814_SEQUENCE_UNKNOWN,
                !.relationship = ZeroRelationship ]

\* the three handles after pc814_init
InitPhases ==
    [ a |-> pc814_init("PC814_PULL_UP", "PC814_EDGE_RISING"),
      b |-> pc814_init("PC814_PULL_UP", "PC814_EDGE_RISING"),
      c |-> pc814_init("PC814_PULL_UP", "PC814_EDGE_RISING") ]

(***************************************************************************)
(* The state machine                                                       *)
(***************************************************************************)
ZeroMean == [q |-> 0, r |-> 0, n |-> 0]

\* the mean with one more period p
AddToMean(m, p) ==
    LET t == m.r + p - m.q
    IN  [q |-> m.q + (t \div (m.n + 1)), r |-> t % (m.n + 1), n |-> m.n + 1]

\* the mean after a call of pc814_process_capture on h with result r
MeanAfter(m, h, r) ==
    IF r.status = PC814_OK /\ r.handle.data.count # h.data.count /\ r.handle.data.valid
    THEN AddToMean(m, ToInt(r.handle.data.period_us))
    ELSE m

Init ==
    /\ port \in PortConfigs
    /\ \E pull_config \in {"PC814_PULL_UP"}, edge_type \in {"PC814_EDGE_RISING"} :
           handle = pc814_init(pull_config, edge_type)
    /\ status = PC814_OK
    /\ call = [op |-> "pc814_init"]
    /\ mean = ZeroMean
    /\ phases = InitPhases
    /\ threephase = pc814_threephase_init
    /\ time_us = U32Zero
    /\ task = Idle

\* the program runs on until a call traps
Running == status # NoReturn

\* one call of pc814_process_capture, the port returning these three values
Capture(current_capture, timer_freq, now) ==
    \E r \in pc814_process_capture(handle, port, current_capture, timer_freq, now) :
        /\ handle' = r.handle
        /\ status' = r.status
        /\ call' = [ op |-> "pc814_process_capture",
                     current_capture |-> current_capture,
                     timer_freq |-> timer_freq,
                     now |-> now,
                     first |-> handle.last_capture_value = U32Zero,
                     callbacks |-> r.callbacks ]
        /\ mean' = MeanAfter(mean, handle, r)
        /\ UNCHANGED <<port, phases, threephase, time_us, task>>

ProcessCapture ==
    /\ Running
    /\ ToInt(handle.statistics.total_zc_count) < MaxSamples
    /\ ToInt(handle.data.count) < MaxSamples
    /\ \E current_capture \in port.captures, timer_freq \in port.frequencies,
          now \in port.times :
           Capture(current_capture, timer_freq, now)

Reset ==
    /\ Running
    /\ handle' = pc814_reset(handle)
    /\ status' = Void
    /\ call' = [op |-> "pc814_reset"]
    /\ UNCHANGED <<port, mean, phases, threephase, time_us, task>>

ResetStatistics ==
    /\ Running
    /\ handle' = pc814_reset_statistics(handle)
    /\ status' = Void
    /\ call' = [op |-> "pc814_reset_statistics"]
    /\ mean' = ZeroMean
    /\ UNCHANGED <<port, phases, threephase, time_us, task>>

SetExpectedFrequency ==
    /\ Running
    /\ \E freq \in ExpectedArgs :
           /\ handle' = pc814_set_expected_frequency(handle, freq)
           /\ call' = [op |-> "pc814_set_expected_frequency", freq |-> freq]
    /\ status' = Void
    /\ UNCHANGED <<port, mean, phases, threephase, time_us, task>>

SetFrequencyTolerance ==
    /\ Running
    /\ \E tolerance \in ToleranceArgs :
           /\ handle' = pc814_set_frequency_tolerance(handle, tolerance)
           /\ call' = [op |-> "pc814_set_frequency_tolerance", tolerance |-> tolerance]
    /\ status' = Void
    /\ UNCHANGED <<port, mean, phases, threephase, time_us, task>>

SetCallback ==
    /\ Running
    /\ \E callback \in port.listeners :
           /\ handle' = pc814_set_callback(handle, callback)
           /\ call' = [op |-> "pc814_set_callback", callback |-> callback]
    /\ status' = Void
    /\ UNCHANGED <<port, mean, phases, threephase, time_us, task>>

Next ==
    \/ ProcessCapture
    \/ SetCallback
    \/ Reset
    \/ ResetStatistics
    \/ SetExpectedFrequency
    \/ SetFrequencyTolerance

Spec == Init /\ [][Next]_vars

(***************************************************************************)
(* A steady 50 Hz line on a 100 kHz tick: an edge every 2000 ticks, that   *)
(* is every 20000 us, and nothing else is called.                          *)
(***************************************************************************)
\* the edges of the steady line that are followed
MaxSteadyEdges == 214760

InitSteady ==
    /\ port = PortMains
    /\ handle = pc814_init("PC814_PULL_UP", "PC814_EDGE_RISING")
    /\ status = PC814_OK
    /\ call = [op |-> "pc814_init"]
    /\ mean = ZeroMean
    /\ phases = InitPhases
    /\ threephase = pc814_threephase_init
    /\ time_us = U32Zero
    /\ task = Idle

SteadyEdge ==
    /\ Running
    /\ mean.n < MaxSteadyEdges
    /\ Capture(IF handle.last_capture_value = U32Zero THEN U32(16)
               ELSE U32Add(handle.last_capture_value, U32(2000)),
               U32(100000),
               U32Add(handle.last_capture_time, U32(20000)))

NextSteady == SteadyEdge

SpecSteady == InitSteady /\ [][NextSteady]_vars

(***************************************************************************)
(* Three phases, each on a handle of its own with a 100 kHz tick, and the  *)
(* three-phase functions.  The first edge of a phase comes at one of the   *)
(* times of the port, every later edge one of its periods after the edge   *)
(* before; the calls of pc814_process_capture come in the order of time.   *)
(*   PhasesAt52: a period of 19010 us, 2^32 mod 19010 = 18986.             *)
(*   PhasesAt50: a period of 20000 us, 2^32 mod 20000 = 7296, or an edge   *)
(*     39230 us later (25 Hz, an invalid sample).                          *)
(*   PhasesAt49: a period of 20340 us, 2^32 mod 20340 = 13576.             *)
(***************************************************************************)
\* pc814_process_capture is not called any more once the three handles have
\* counted this many samples between them
MaxPhaseSamples == 4

PhaseIds == {"a", "b", "c"}

PhasesAt52 ==
    [ timer_get_capture_value |-> TRUE, timer_get_frequency |-> TRUE,
      get_time_us |-> TRUE,
      frequency |-> U32(100000),
      ticks |-> { U32(1901) },
      first |-> [ a |-> { U32(100000) },
                  b |-> { U32(100000), U32(104752), U32(106337), U32(112673),
                          U32(113148) },
                  c |-> { U32(106337), U32(112673), U32(119010), U32(126296) } ],
      tolerances |-> { F32FromInt(15), F32FromInt(31) },
      lengths |-> { 63, 64 } ]

PhasesAt50 ==
    [ timer_get_capture_value |-> TRUE, timer_get_frequency |-> TRUE,
      get_time_us |-> TRUE,
      frequency |-> U32(100000),
      ticks |-> { U32(2000), U32(3923) },
      first |-> [ a |-> { U32(100000) },
                  b |-> { U32(106667) },
                  c |-> { U32(113333) } ],
      tolerances |-> { F32FromInt(15), F32Zero },
      lengths |-> { 64 } ]

PhasesAt49 ==
    [ timer_get_capture_value |-> TRUE, timer_get_frequency |-> TRUE,
      get_time_us |-> TRUE,
      frequency |-> U32(100000),
      ticks |-> { U32(2034) },
      first |-> [ a |-> { U32(100000) },
                  b |-> { U32(113560) },
                  c |-> { U32(127120) } ],
      tolerances |-> { },
      lengths |-> { 64 } ]

PhasePorts == { PhasesAt52, PhasesAt50, PhasesAt49 }

InitThreePhase ==
    /\ port \in PhasePorts
    /\ handle = pc814_init("PC814_PULL_UP", "PC814_EDGE_RISING")
    /\ status = PC814_OK
    /\ call = [op |-> "pc814_threephase_init"]
    /\ mean = ZeroMean
    /\ phases = InitPhases
    /\ threephase = pc814_threephase_init
    /\ time_us = U32Zero
    /\ task = Idle

\* the samples that the three handles have counted
PhaseSamples ==
    ToInt(phases.a.statistics.total_zc_count)
        + ToInt(phases.b.statistics.total_zc_count)
        + ToInt(phases.c.statistics.total_zc_count)

\* no handle has seen an edge later than now
InOrderOfTime(now) ==
    \A id \in PhaseIds : U32Le(phases[id].last_capture_time, now)

\* the microseconds of a number of ticks of the 100 kHz timer
MicrosOfTicks(ticks) == U32Mul(ticks, U32(10))

\* pc814_process_capture on the handle of the phase id
EdgeOfPhase(id) ==
    LET h == phases[id]
        edges == IF h.last_capture_value = U32Zero
                 THEN { [capture |-> U32(16), now |-> t] : t \in port.first[id] }
                 ELSE { [ capture |-> U32Add(h.last_capture_value, k),
                          now |-> U32Add(h.last_capture_time, MicrosOfTicks(k)) ]
                        : k \in port.ticks }
    IN  \E e \in edges :
          /\ InOrderOfTime(e.now)
          /\ \E r \in pc814_process_capture(h, port, e.capture,
                                            port.frequency, e.now) :
               /\ phases' = [phases EXCEPT ![id] = r.handle]
               /\ status' = r.status
               /\ call' = [ op |-> "pc814_process_capture", phase |-> id,
                            current_capture |-> e.capture,
                            timer_freq |-> port.frequency, now |-> e.now,
                            first |-> h.last_capture_value = U32Zero,
                            callbacks |-> r.callbacks ]

\* pc814_process_capture on the handle of one phase
PhaseEdge ==
    /\ PhaseSamples < MaxPhaseSamples
    /\ \E id \in PhaseIds : EdgeOfPhase(id)
    /\ UNCHANGED <<port, handle, mean, threephase, time_us, task>>

ThreePhaseProcess ==
    LET r == pc814_threephase_process(threephase, phases)
    IN  /\ threephase' = r.threephase
        /\ status' = r.status
        /\ call' = [ op |-> "pc814_threephase_process",
                     first |-> ~threephase.relationship.valid ]
        /\ UNCHANGED <<port, handle, mean, phases, time_us, task>>

ThreePhaseReset ==
    /\ threephase' = pc814_threephase_reset(threephase)
    /\ status' = Void
    /\ call' = [op |-> "pc814_threephase_reset"]
    /\ UNCHANGED <<port, handle, mean, phases, time_us, task>>

ThreePhaseSetTolerance ==
    /\ \E tolerance \in port.tolerances :
         /\ threephase' = pc814_threephase_set_tolerance(threephase, tolerance)
         /\ call' = [op |-> "pc814_threephase_set_tolerance", tolerance |-> tolerance]
    /\ status' = Void
    /\ UNCHANGED <<port, handle, mean, phases, time_us, task>>

ThreePhaseDetectSequence ==
    /\ status' = pc814_threephase_detect_sequence(threephase)
    /\ call' = [op |-> "pc814_threephase_detect_sequence"]
    /\ UNCHANGED <<port, handle, mean, phases, threephase, time_us, task>>

ThreePhaseIsSequenceCorrect ==
    /\ status' = pc814_threephase_is_sequence_correct(threephase)
    /\ call' = [op |-> "pc814_threephase_is_sequence_correct"]
    /\ UNCHANGED <<port, handle, mean, phases, threephase, time_us, task>>

ThreePhaseGetSwapRecommendation ==
    LET r == pc814_threephase_get_swap_recommendation(threephase)
    IN  /\ status' = r.status
        /\ call' = [ op |-> "pc814_threephase_get_swap_recommendation",
                     swap |-> r.swap ]
        /\ UNCHANGED <<port, handle, mean, phases, threephase, time_us, task>>

ThreePhaseGetCorrectionMessage ==
    /\ \E max_len \in port.lengths :
         LET r == pc814_threephase_get_correction_message(threephase, max_len)
         IN  /\ status' = r.status
             /\ call' = [ op |-> "pc814_threephase_get_correction_message",
                          max_len |-> max_len, message |-> r.message ]
    /\ UNCHANGED <<port, handle, mean, phases, threephase, time_us, task>>

NextThreePhase ==
    \/ PhaseEdge
    \/ ThreePhaseProcess
    \/ ThreePhaseReset
    \/ ThreePhaseSetTolerance
    \/ ThreePhaseDetectSequence
    \/ ThreePhaseIsSequenceCorrect
    \/ ThreePhaseGetSwapRecommendation
    \/ ThreePhaseGetCorrectionMessage

SpecThreePhase == InitThreePhase /\ [][NextThreePhase]_vars

(***************************************************************************)
(* The phase utilities pc814_calc_time_for_phase and pc814_calc_phase_angle *)
(* on angles that are not negative.                                         *)
(***************************************************************************)
\* (uint32_t)x for a float 0 <= x < 2^32: the fraction is dropped
F32ToU32(x) ==
    IF x.m = 0 THEN U32Zero
    ELSE IF x.e >= 0
    THEN << x.m \div (2 ^ (16 - x.e)), (x.m % (2 ^ (16 - x.e))) * (2 ^ x.e) >>
    ELSE IF x.e < -30 THEN U32Zero
    ELSE U32(x.m \div (2 ^ (0 - x.e)))

\* while (phase >= 360.0f) phase -= 360.0f
RECURSIVE NormalisePhase(_)
NormalisePhase(phase) ==
    IF F32Le(F32FromInt(360), phase)
    THEN NormalisePhase(F32AbsDiff(phase, F32FromInt(360)))
    ELSE phase

\* 1000000UL / line_freq
PeriodOfLine(line_freq) == U32Div(U32(1000000), line_freq)

pc814_calc_phase_angle(time_offset_us, line_freq) ==
    IF line_freq = U32Zero THEN F32Zero
    ELSE IF PeriodOfLine(line_freq) = U32Zero THEN F32Zero
    ELSE NormalisePhase(F32Mul(F32Div(F32FromU32(time_offset_us),
                                      F32FromU32(PeriodOfLine(line_freq))),
                               F32FromInt(360)))

pc814_calc_time_for_phase(phase_deg, line_freq) ==
    IF line_freq = U32Zero THEN U32Zero
    ELSE F32ToU32(F32Mul(F32Div(NormalisePhase(phase_deg), F32FromInt(360)),
                         F32FromU32(PeriodOfLine(line_freq))))

\* the angles asked for: 0, 0.5, 16.4772, 45, 90, 90.36, 120, 128.033997,
\* 180.216003, 256.067993, 300, the largest float below 360, and 450
PhaseArgs ==
    { F32Zero, [m |-> 8388608, e |-> -24], [m |-> 8638798, e |-> -19],
      F32FromInt(45), F32FromInt(90), [m |-> 11843666, e |-> -17],
      F32FromInt(120), [m |-> 8390836, e |-> -16], [m |-> 11810636, e |-> -16],
      [m |-> 8390836, e |-> -15], F32FromInt(300), [m |-> 11796479, e |-> -15],
      F32FromInt(450) }

LineFreqs ==
    { U32Zero, U32(1), U32(10), U32(50), U32(52), U32(60), U32(100), U32(400),
      U32(1000000), U32(2000000) }

InitPhase ==
    /\ port = PortMains
    /\ handle = pc814_init("PC814_PULL_UP", "PC814_EDGE_RISING")
    /\ status = PC814_OK
    /\ call = [op |-> "pc814_init"]
    /\ mean = ZeroMean
    /\ phases = InitPhases
    /\ threephase = pc814_threephase_init
    /\ time_us = U32Zero
    /\ task = Idle

CalcTimeForPhase ==
    /\ \E phase_deg \in PhaseArgs, line_freq \in LineFreqs :
         /\ status' = pc814_calc_time_for_phase(phase_deg, line_freq)
         /\ call' = [ op |-> "pc814_calc_time_for_phase",
                      phase_deg |-> phase_deg, line_freq |-> line_freq ]
    /\ UNCHANGED <<port, handle, mean, phases, threephase, time_us, task>>

\* the offset that pc814_calc_time_for_phase returned is given back to
\* pc814_calc_phase_angle with the same line frequency
CalcPhaseAngle ==
    /\ call.op = "pc814_calc_time_for_phase"
    /\ status' = pc814_calc_phase_angle(status, call.line_freq)
    /\ call' = [ op |-> "pc814_calc_phase_angle", time_offset_us |-> status,
                 line_freq |-> call.line_freq, phase_deg |-> call.phase_deg ]
    /\ UNCHANGED <<port, handle, mean, phases, threephase, time_us, task>>

NextPhase ==
    \/ CalcTimeForPhase
    \/ CalcPhaseAngle

SpecPhase == InitPhase /\ [][NextPhase]_vars

(***************************************************************************)
(* The balance and the synchronisation of the three phases.                *)
(*   BalanceMixed: periods of 20000, 19600 and 19230 us (50, 51, 52 Hz).   *)
(*   BalanceAt52: a period of 19010 us, b 6865 us and c 13202 us after a.  *)
(*   BalanceAt50: a period of 20000 us, b with a and c 19400 us after a.   *)
(***************************************************************************)
BalanceMixed ==
    [ timer_get_capture_value |-> TRUE, timer_get_frequency |-> TRUE,
      get_time_us |-> TRUE,
      frequency |-> U32(100000),
      ticks |-> { U32(2000), U32(1960), U32(1923) },
      first |-> [ a |-> { U32(100000) },
                  b |-> { U32(100000) },
                  c |-> { U32(100000) } ] ]

BalanceAt52 ==
    [ timer_get_capture_value |-> TRUE, timer_get_frequency |-> TRUE,
      get_time_us |-> TRUE,
      frequency |-> U32(100000),
      ticks |-> { U32(1901) },
      first |-> [ a |-> { U32(100000) },
                  b |-> { U32(106865) },
                  c |-> { U32(113202) } ] ]

BalanceAt50 ==
    [ timer_get_capture_value |-> TRUE, timer_get_frequency |-> TRUE,
      get_time_us |-> TRUE,
      frequency |-> U32(100000),
      ticks |-> { U32(2000) },
      first |-> [ a |-> { U32(100000) },
                  b |-> { U32(100000) },
                  c |-> { U32(100000), U32(119400) } ] ]

BalancePorts == { BalanceMixed, BalanceAt52, BalanceAt50 }

InitBalance ==
    /\ port \in BalancePorts
    /\ handle = pc814_init("PC814_PULL_UP", "PC814_EDGE_RISING")
    /\ status = PC814_OK
    /\ call = [op |-> "pc814_threephase_init"]
    /\ mean = ZeroMean
    /\ phases = InitPhases
    /\ threephase = pc814_threephase_init
    /\ time_us = U32Zero
    /\ task = Idle

ThreePhaseIsSynchronized ==
    /\ status' = pc814_threephase_is_synchronized(threephase)
    /\ call' = [op |-> "pc814_threephase_is_synchronized"]
    /\ UNCHANGED <<port, handle, mean, phases, threephase, time_us, task>>

ThreePhaseGetImbalance ==
    /\ status' = pc814_threephase_get_imbalance(threephase)
    /\ call' = [op |-> "pc814_threephase_get_imbalance"]
    /\ UNCHANGED <<port, handle, mean, phases, threephase, time_us, task>>

NextBalance ==
    \/ PhaseEdge
    \/ ThreePhaseProcess
    \/ ThreePhaseReset
    \/ ThreePhaseIsSynchronized
    \/ ThreePhaseGetImbalance

SpecBalance == InitBalance /\ [][NextBalance]_vars

(***************************************************************************)
(* Properties                                                              *)
(***************************************************************************)
\* the step is a call of pc814_process_capture that stored a sample
SampleStep ==
    /\ call'.op = "pc814_process_capture"
    /\ handle'.data.count # handle.data.count

\* the last call was a call of pc814_process_capture that stored a sample
SampleStored ==
    /\ call.op = "pc814_process_capture"
    /\ ~call.first
    /\ status = PC814_OK

\* C1: for every pair of raw counter values (previous, current) of a sample,
\* the tick delta the period is taken from is (current - previous) mod 2^32,
\* also when the counter wrapped between the two edges (current < previous),
\* which is the case stated here.
C1_DeltaIsModular ==
    [][ (SampleStep /\ U32Lt(call'.current_capture, handle.last_capture_value)) =>
          PeriodTicks(handle.last_capture_value, call'.current_capture)
              = U32Sub(call'.current_capture, handle.last_capture_value) ]_vars

\* C2: when the period derived from two successive edges is 0 us, the call
\* fails with an error result and stores no sample.
C2_ZeroPeriodIsAnError ==
    [][ ( /\ call'.op = "pc814_process_capture"
          /\ handle.last_capture_value # U32Zero
          /\ port.timer_get_capture_value /\ port.timer_get_frequency
          /\ call'.current_capture # U32Zero /\ call'.timer_freq # U32Zero
          /\ PeriodUs(PeriodTicks(handle.last_capture_value, call'.current_capture),
                      call'.timer_freq) = U32Zero )
        => (status' = PC814_ERROR /\ handle'.data = handle.data) ]_vars

\* one decimal digit more of r / f: qr = <<digits so far, remainder>>
DecimalStep(qr, f) == <<qr[1] * 10 + ((qr[2] * 10) \div f), (qr[2] * 10) % f>>

\* floor(r * 1000000 / f) for r < f < 2^31 / 10
MicrosOfRemainder(r, f) ==
    DecimalStep(DecimalStep(DecimalStep(DecimalStep(DecimalStep(DecimalStep(
        <<0, r>>, f), f), f), f), f), f)[1]

\* period_us is floor(ticks * 1000000 / f) in unbounded arithmetic
IsExactPeriod(period_us, ticks, f) ==
    LET dm == U32DivMod(ticks, f)
        whole == dm[1]
        micros == MicrosOfRemainder(ToInt(dm[2]), ToInt(f))
    IN  /\ Small(whole)
        /\ ToInt(whole) < 4294 \/ (ToInt(whole) = 4294 /\ micros < 967296)
        /\ period_us = U32Add(U32Mul(whole, U32(1000000)), U32(micros))

\* C3: the period stored with a sample is floor(ticks * 1000000 / frequency):
\* the product does not wrap at 32 bits before the division.  Stated for the
\* edges between which the counter did not wrap, where the tick delta is the
\* plain difference.
C3_PeriodIsExact ==
    [][ (SampleStep /\ U32Lt(handle.last_capture_value, call'.current_capture)) =>
          IsExactPeriod(handle'.data.period_us,
                        PeriodTicks(handle.last_capture_value, call'.current_capture),
                        call'.timer_freq) ]_vars

\* C4: a call that reads a raw counter value of 0 or a frequency of 0 returns
\* an error and changes nothing of the handle.
C4_ZeroInputRejected ==
    [][ ( /\ call'.op = "pc814_process_capture"
          /\ (call'.current_capture = U32Zero \/ call'.timer_freq = U32Zero) )
        => (status' = PC814_ERROR /\ handle' = handle) ]_vars

C4_Witness ==
    /\ call.op = "pc814_process_capture"
    /\ (call.current_capture = U32Zero \/ call.timer_freq = U32Zero)
    /\ status = PC814_ERROR
    /\ handle.last_capture_value # U32Zero
    /\ handle.statistics.total_zc_count # U32Zero

\* C5: after pc814_init and after pc814_reset there is no previous capture;
\* the first edge accepted then only records the raw value and the timestamp,
\* and every later accepted edge that returns stores a sample.
C5_FirstEdgeOnlyRecords ==
    [][ /\ call'.op = "pc814_reset" => handle'.last_capture_value = U32Zero
        /\ ( /\ call'.op = "pc814_process_capture"
             /\ status' = PC814_OK
             /\ handle.last_capture_value = U32Zero )
           => handle' = [ handle EXCEPT
                            !.last_capture_value = call'.current_capture,
                            !.last_capture_time =
                                IF port.get_time_us THEN call'.now ELSE U32Zero ]
        /\ ( /\ call'.op = "pc814_process_capture"
             /\ status' = PC814_OK
             /\ handle.last_capture_value # U32Zero )
           => handle'.data.count = U32Inc(handle.data.count) ]_vars

C5_Witness ==
    /\ call.op = "pc814_process_capture"
    /\ call.first
    /\ status = PC814_OK
    /\ handle.last_capture_value = call.current_capture
    /\ handle.last_capture_time = call.now
    /\ handle.data.count = U32Zero
    /\ handle.data.period_us # U32Zero
    /\ handle.statistics.valid_zc_count # U32Zero

\* the tolerance in percent, for the whole numbers of percent
PercentOf(tolerance) == CHOOSE n \in 1 .. 50 : F32FromInt(n) = tolerance

\* |freq - expected| * 100 <= tolerance * expected, neither being 0
WithinTolerance(freq, expected, tolerance) ==
    /\ freq # U32Zero
    /\ expected # U32Zero
    /\ ToInt(AbsDiff(freq, expected)) * 100 <= PercentOf(tolerance) * ToInt(expected)

\* C6: a sample is valid exactly when its frequency and the expected frequency
\* are not 0 and |frequency - expected| * 100 <= tolerance * expected.
C6_ValidIffWithinTolerance ==
    SampleStored =>
        (handle.data.valid <=>
            WithinTolerance(handle.data.frequency_hz, handle.expected_frequency,
                            handle.frequency_tolerance))

\* C7: the valid and the invalid count add up to the total count.
C7_CountsAddUp ==
    U32Add(handle.statistics.valid_zc_count, handle.statistics.invalid_zc_count)
        = handle.statistics.total_zc_count

C7_Witness ==
    /\ call.op = "pc814_reset"
    /\ handle.statistics.valid_zc_count # U32Zero
    /\ handle.statistics.invalid_zc_count # U32Zero

\* C8: once there is a valid sample, min_period_us <= avg_period_us <=
\* max_period_us, however many valid samples went into the 32-bit sum.
C8_AverageBetweenMinAndMax ==
    handle.statistics.valid_zc_count # U32Zero =>
        /\ U32Le(handle.statistics.min_period_us, handle.statistics.avg_period_us)
        /\ U32Le(handle.statistics.avg_period_us, handle.statistics.max_period_us)

\* C9: avg_period_us is the truncated arithmetic mean of the periods of the
\* valid samples since the statistics were last reset.
C9_AverageIsMean ==
    mean.n > 0 => handle.statistics.avg_period_us = U32(mean.q)

\* C10: an edge that stores an invalid sample returns PC814_OK, adds one to the
\* edge count, to total_zc_count and to invalid_zc_count, and leaves the valid
\* count, the minimum, maximum and average period and frequency, period_sum
\* and period_count as they were.
C10_InvalidSampleOnlyCounted ==
    [][ (SampleStep /\ ~handle'.data.valid) =>
          /\ status' = PC814_OK
          /\ handle'.data.count = U32Inc(handle.data.count)
          /\ handle'.statistics =
                 [ handle.statistics EXCEPT
                     !.total_zc_count = U32Inc(@),
                     !.invalid_zc_count = U32Inc(@) ]
          /\ handle'.period_sum = handle.period_sum
          /\ handle'.period_count = handle.period_count ]_vars

C10_Witness ==
    /\ SampleStored
    /\ ~handle.data.valid
    /\ handle.statistics.valid_zc_count # U32Zero
    /\ handle.statistics.invalid_zc_count # U32Zero
    /\ handle.statistics.min_period_us # U32Zero

\* C11: with a listener registered, pc814_process_capture calls it exactly
\* once for every edge that stores a valid sample, during the call and with the
\* sample already stored (valid, edge count incremented), and does not call it
\* for a first edge, a refused call or an invalid sample; without a listener
\* nothing is called.
C11_ListenerCalledOncePerValidSample ==
    [][ call'.op = "pc814_process_capture" =>
          IF /\ handle.callback
             /\ status' = PC814_OK
             /\ handle'.data.count # handle.data.count
             /\ handle'.data.valid
          THEN /\ call'.callbacks = << handle'.data >>
               /\ handle'.data.count = U32Inc(handle.data.count)
               /\ handle.last_capture_value # U32Zero
          ELSE call'.callbacks = << >> ]_vars

C11_Witness ==
    /\ call.op = "pc814_process_capture"
    /\ handle.callback
    /\ Len(call.callbacks) = 1
    /\ call.callbacks[1].valid
    /\ call.callbacks[1] = handle.data
    /\ handle.statistics.invalid_zc_count # U32Zero

(***************************************************************************)
(* Properties of the three-phase functions                                 *)
(***************************************************************************)
\* the sequence tolerance in degrees, for the whole numbers of degrees
DegreesOf(tolerance) == CHOOSE n \in 1 .. 30 : F32FromInt(n) = tolerance

\* |x - centre| <= tol
Within(x, centre, tol) ==
    /\ F32Le(F32FromInt(centre - tol), x)
    /\ F32Le(x, F32FromInt(centre + tol))

\* the distance from x >= 0 to 240 around the circle is at most tol
Near240(x, tol) ==
    \/ Within(x, 240, tol)
    \/ F32Le(F32FromInt(600 - tol), x)

near_120(x, tol) == Within(x, 120, tol) \/ Near240(x, tol)

near_240(x, tol) == Near240(x, tol) /\ ~Within(x, 120, tol)

\* the first-match decision order
FirstMatch(ab, bc, ca, tol) ==
    IF near_120(ab, tol) /\ near_120(bc, tol) /\ near_120(ca, tol)
    THEN PC814_SEQUENCE_ABC
    ELSE IF (near_240(ab, tol) \/ near_240(bc, tol)) /\ near_120(ca, tol)
    THEN PC814_SEQUENCE_ACB
    ELSE IF near_240(ab, tol) /\ near_240(bc, tol)
    THEN PC814_SEQUENCE_ACB
    ELSE PC814_SEQUENCE_ERROR

\* the classification of the angles that the relationship holds
Classified ==
    FirstMatch(threephase.relationship.phase_ab_angle,
               threephase.relationship.phase_bc_angle,
               threephase.relationship.phase_ca_angle,
               DegreesOf(threephase.sequence_tolerance))

\* the angles that the relationship holds are within the tolerance of these
AnglesNear(ab, bc, ca) ==
    LET tol == DegreesOf(threephase.sequence_tolerance)
    IN  /\ Within(threephase.relationship.phase_ab_angle, ab, tol)
        /\ Within(threephase.relationship.phase_bc_angle, bc, tol)
        /\ Within(threephase.relationship.phase_ca_angle, ca, tol)

\* the last call was a pass of pc814_threephase_process that returned PC814_OK
PassDone == call.op = "pc814_threephase_process" /\ status = PC814_OK

\* the last call gave a verdict for a relationship that was valid: a pass
\* after the first one, or a call of pc814_threephase_detect_sequence
VerdictGiven ==
    \/ PassDone /\ ~call.first
    \/ call.op = "pc814_threephase_detect_sequence" /\ threephase.relationship.valid

LastVerdict ==
    IF call.op = "pc814_threephase_detect_sequence" THEN status
    ELSE threephase.sequence

\* C12: after every pass that returns PC814_OK, the first one after
\* pc814_threephase_init or pc814_threephase_reset included, the verdict stored
\* is the classification of the angles of that pass; when the three angles are
\* within the tolerance of 120 degrees it is PC814_SEQUENCE_ABC and no swap is
\* recommended.
C12_VerdictOfSamePass ==
    PassDone =>
        /\ threephase.sequence = Classified
        /\ AnglesNear(120, 120, 120) =>
               /\ threephase.sequence = PC814_SEQUENCE_ABC
               /\ pc814_threephase_get_swap_recommendation(threephase).swap
                      = [swap_ab |-> FALSE, swap_bc |-> FALSE, swap_ca |-> FALSE]

C14_TwoAt240IsReversed ==
    (PassDone /\ ~call.first /\ AnglesNear(240, 240, 120)) =>
        /\ threephase.sequence = PC814_SEQUENCE_ACB
        /\ pc814_threephase_get_swap_recommendation(threephase).swap
               = [swap_ab |-> FALSE, swap_bc |-> TRUE, swap_ca |-> FALSE]

\* C15: for a valid relationship with the three angles within the tolerance of
\* 240 degrees the verdict is PC814_SEQUENCE_ACB and
\* pc814_threephase_is_sequence_correct returns false.
C15_ReversedRotationIsReversed ==
    (PassDone /\ ~call.first /\ AnglesNear(240, 240, 240)) =>
        /\ threephase.sequence = PC814_SEQUENCE_ACB
        /\ ~pc814_threephase_is_sequence_correct(threephase)

\* the three handles hold valid samples of one period P with the edge of b a
\* third of P and the edge of c two thirds of P after the edge of a, the
\* microsecond clock not wrapping
CorrectRotation ==
    LET P == ToInt(phases.a.data.period_us)
        tA == ToInt(phases.a.data.timestamp_us)
        tB == ToInt(phases.b.data.timestamp_us)
        tC == ToInt(phases.c.data.timestamp_us)
    IN  /\ phases.a.data.valid /\ phases.b.data.valid /\ phases.c.data.valid
        /\ phases.b.data.period_us = phases.a.data.period_us
        /\ phases.c.data.period_us = phases.a.data.period_us
        /\ tB - tA \in { P \div 3, (P \div 3) + 1 }
        /\ tC - tA \in { (2 * P) \div 3, ((2 * P) \div 3) + 1 }

\* C16: a correct rotation is measured as 120 degrees on every pair: for three
\* valid channels of the same period P with t_B = t_A + P/3 and
\* t_C = t_A + 2P/3, the three angles stored by a pass are within the
\* sequence tolerance of 120 degrees.
C16_CorrectRotationIs120 ==
    (PassDone /\ CorrectRotation) => AnglesNear(120, 120, 120)

\* C17: when one of the three channels has no valid latest sample the pass
\* returns an error, and after it the relationship is not valid.
C17_AbortedPassInvalidates ==
    ( /\ call.op = "pc814_threephase_process"
      /\ ~(phases.a.data.valid /\ phases.b.data.valid /\ phases.c.data.valid) )
    => (status = PC814_ERROR /\ ~threephase.relationship.valid)

\* timestamps and reference periods at the ends of the 32-bit range, around
\* the largest remainder whose angle rounds up to 360, and of the mains
AngleTimes == { U32Zero, U32(1), << 511, 65535 >>, << 512, 0 >>, U32Max }

AnglePeriods == { U32Zero, U32(1), U32(3), U32(20000), << 512, 0 >>, U32Max }

BelowFullTurn(angle) == F32Lt(angle, F32FromInt(360))

AnglesOfAllInputsInRange ==
    \A time1 \in AngleTimes, time2 \in AngleTimes, period_us \in AnglePeriods :
        LET angle == calculate_phase_angle(time1, time2, period_us)
        IN  /\ BelowFullTurn(angle)
            /\ period_us = U32Zero => angle = F32Zero

\* C18: every pairwise angle computed and stored by pc814_threephase_process
\* lies in [0, 360), for all timestamps and every reference period; a zero
\* reference period gives the angle 0.
C18_AngleInRange ==
    /\ AnglesOfAllInputsInRange
    /\ BelowFullTurn(threephase.relationship.phase_ab_angle)
    /\ BelowFullTurn(threephase.relationship.phase_bc_angle)
    /\ BelowFullTurn(threephase.relationship.phase_ca_angle)

C18_Witness ==
    /\ PassDone
    /\ F32Le(F32FromInt(359), threephase.relationship.phase_ca_angle)
    /\ BelowFullTurn(threephase.relationship.phase_ca_angle)
    /\ calculate_phase_angle(U32Zero, << 511, 65535 >>, << 512, 0 >>) = F32Zero

\* C19: on a valid relationship pc814_threephase_get_swap_recommendation sets
\* no flag when the stored verdict is ABC and swap_bc alone when it is ACB; on
\* an invalid relationship it returns an error with the three flags false.
C19_SwapForStoredVerdict ==
    call.op = "pc814_threephase_get_swap_recommendation" =>
        IF ~threephase.relationship.valid
        THEN /\ status = PC814_ERROR
             /\ call.swap = [swap_ab |-> FALSE, swap_bc |-> FALSE, swap_ca |-> FALSE]
        ELSE /\ threephase.sequence = PC814_SEQUENCE_ABC =>
                  call.swap = [swap_ab |-> FALSE, swap_bc |-> FALSE, swap_ca |-> FALSE]
             /\ threephase.sequence = PC814_SEQUENCE_ACB =>
                  call.swap = [swap_ab |-> FALSE, swap_bc |-> TRUE, swap_ca |-> FALSE]

C19_Witness ==
    /\ call.op = "pc814_threephase_get_swap_recommendation"
    /\ threephase.relationship.valid
    /\ threephase.sequence = PC814_SEQUENCE_ACB
    /\ status = PC814_OK
    /\ call.swap.swap_bc /\ ~call.swap.swap_ab /\ ~call.swap.swap_ca

\* the swap that the rules give for the angles of the relationship
SwapByRules ==
    LET tol == DegreesOf(threephase.sequence_tolerance)
        ab == near_120(threephase.relationship.phase_ab_angle, tol)
        bc == near_120(threephase.relationship.phase_bc_angle, tol)
        ca == near_120(threephase.relationship.phase_ca_angle, tol)
    IN  IF ab /\ ca THEN "swap_bc"
        ELSE IF bc /\ ca THEN "swap_ab"
        ELSE IF ab /\ bc THEN "swap_ca"
        ELSE "none"

FlagsSet(swap) ==
    Cardinality({ f \in {"swap_ab", "swap_bc", "swap_ca"} : swap[f] })

\* C20: with the stored verdict ERROR the recommendation is swap_bc when ab and
\* ca are near 120, else swap_ab when bc and ca are, else swap_ca when ab and
\* bc are, else no swap and the generic message; at most one flag is set in
\* every case.
C20_SwapForErrorVerdict ==
    /\ call.op = "pc814_threephase_get_swap_recommendation" =>
         /\ FlagsSet(call.swap) <= 1
         /\ (threephase.relationship.valid /\ threephase.sequence = PC814_SEQUENCE_ERROR) =>
              /\ status = PC814_OK
              /\ \A f \in {"swap_ab", "swap_bc", "swap_ca"} :
                     call.swap[f] <=> (SwapByRules = f)
    /\ ( /\ call.op = "pc814_threephase_get_correction_message"
         /\ call.max_len >= 64
         /\ threephase.relationship.valid
         /\ threephase.sequence = PC814_SEQUENCE_ERROR
         /\ SwapByRules = "none" )
       => call.message = "Phase sequence error - check all connections"

C20_Witness ==
    /\ call.op = "pc814_threephase_get_swap_recommendation"
    /\ threephase.relationship.valid
    /\ threephase.sequence = PC814_SEQUENCE_ERROR
    /\ call.swap = [swap_ab |-> FALSE, swap_bc |-> FALSE, swap_ca |-> FALSE]
    /\ Within(threephase.relationship.phase_ab_angle, 90, 1)
    /\ Within(threephase.relationship.phase_bc_angle, 150, 1)
    /\ Within(threephase.relationship.phase_ca_angle, 120, 1)
    /\ DegreesOf(threephase.sequence_tolerance) = 10

\* C26: pc814_reset resets the handle and the statistics: after it the edge
\* count is 0, the sample is invalid and every field of the statistics is zero.
C26_ResetClearsStatistics ==
    [][ call'.op = "pc814_reset" =>
          /\ handle'.data.count = U32Zero
          /\ ~handle'.data.valid
          /\ handle'.statistics.total_zc_count = U32Zero
          /\ handle'.statistics.valid_zc_count = U32Zero
          /\ handle'.statistics.invalid_zc_count = U32Zero
          /\ handle'.statistics.min_period_us = U32Zero
          /\ handle'.statistics.max_period_us = U32Zero
          /\ handle'.statistics.avg_period_us = U32Zero
          /\ handle'.statistics.min_frequency_hz = F32Zero
          /\ handle'.statistics.max_frequency_hz = F32Zero
          /\ handle'.statistics.avg_frequency_hz = F32Zero ]_vars

\* the verdicts that a classification gives
Verdicts == { PC814_SEQUENCE_ABC, PC814_SEQUENCE_ACB, PC814_SEQUENCE_ERROR }

\* C27: pc814_threephase_get_sequence returns UNKNOWN exactly while no pass has
\* succeeded since the last init or reset: it is UNKNOWN after init and after
\* every reset, a pass that returns PC814_OK leaves ABC, ACB or ERROR, no
\* other call changes it, and pc814_threephase_detect_sequence never returns
\* UNKNOWN.
C27_UnknownUntilFirstPass ==
    /\ pc814_threephase_get_sequence(threephase) = PC814_SEQUENCE_UNKNOWN
    /\ [][ /\ (call'.op = "pc814_threephase_process" /\ status' = PC814_OK) =>
                pc814_threephase_get_sequence(threephase') \in Verdicts
           /\ call'.op = "pc814_threephase_reset" =>
                pc814_threephase_get_sequence(threephase') = PC814_SEQUENCE_UNKNOWN
           /\ ( /\ call'.op # "pc814_threephase_reset"
                /\ ~(call'.op = "pc814_threephase_process" /\ status' = PC814_OK) ) =>
                pc814_threephase_get_sequence(threephase')
                    = pc814_threephase_get_sequence(threephase)
           /\ call'.op = "pc814_threephase_detect_sequence" => status' \in Verdicts
         ]_vars

C27_Witness ==
    /\ PassDone /\ call.first
    /\ pc814_threephase_get_sequence(threephase) = PC814_SEQUENCE_ERROR
    /\ pc814_threephase_detect_sequence(threephase) = PC814_SEQUENCE_ACB

\* the period that a pass uses for the three angles
PassPeriod ==
    U32Div(U32Add(U32Add(phases.a.data.period_us, phases.b.data.period_us),
                  phases.c.data.period_us), U32(3))

\* the offset from time1 to time2 reduced modulo the period, in microseconds
ReducedOffset(time1, time2, period_us) ==
    ToInt(U32Mod(TimeDiff(time1, time2), period_us))

\* C29: the pairwise offset is antisymmetric modulo the period: for the
\* timestamps t1 # t2 of two phases and the period p > 0 of a pass, the
\* reduced offsets of (t1, t2) and of (t2, t1) sum to 0 modulo p.
C29_OffsetsAntisymmetric ==
    (PassDone /\ PassPeriod # U32Zero) =>
        \A x \in PhaseIds, y \in PhaseIds :
            LET t1 == phases[x].data.timestamp_us
                t2 == phases[y].data.timestamp_us
            IN  t1 # t2 =>
                  ( ReducedOffset(t1, t2, PassPeriod)
                      + ReducedOffset(t2, t1, PassPeriod) ) % ToInt(PassPeriod) = 0

\* the whole 1024ths of a float x >= 0 below 8192
Floor1024(x) ==
    IF x.m = 0 THEN 0
    ELSE IF x.e + 10 >= 0 THEN x.m * (2 ^ (x.e + 10))
    ELSE IF x.e + 10 < -30 THEN 0
    ELSE x.m \div (2 ^ (0 - (x.e + 10)))

\* |x - 120| in 1024ths, less than one 1024th too large or too small
Deviation1024(x) ==
    IF Floor1024(x) >= 122880 THEN Floor1024(x) - 122880
    ELSE 122880 - Floor1024(x)

Negative(x) == "sign" \in DOMAIN x /\ x.sign = -1

\* r is mean(|ab - 120|, |bc - 120|, |ca - 120|) / 120 * 100, to 40 / 18432 of
\* a percent: 18 * r = 5 * (the sum of the deviations)
IsImbalanceOf(r, ab, bc, ca) ==
    LET sum == Deviation1024(ab) + Deviation1024(bc) + Deviation1024(ca)
        gap == 18 * Floor1024(r) - 5 * sum
    IN  ~Negative(r) /\ -40 <= gap /\ gap <= 40

\* the relationship of the example: angles 130, 120 and 110
ExampleRelationship ==
    [ pc814_threephase_init EXCEPT
        !.relationship.valid = TRUE,
        !.relationship.phase_ab_angle = F32FromInt(130),
        !.relationship.phase_bc_angle = F32FromInt(120),
        !.relationship.phase_ca_angle = F32FromInt(110) ]

C22_ImbalanceAtMost100 ==
    (call.op = "pc814_threephase_get_imbalance" /\ threephase.relationship.valid)
    => (~Negative(status) /\ F32Le(status, F32FromInt(100)))

\* the frequencies of the relationship, in Hz
RelationshipFrequencies ==
    { ToInt(threephase.relationship.phase_a_freq),
      ToInt(threephase.relationship.phase_b_freq),
      ToInt(threephase.relationship.phase_c_freq) }

\* C23: pc814_threephase_is_synchronized returns true exactly when the
\* relationship is valid and the largest and the smallest of the three
\* frequencies differ by at most 1 Hz.
C23_SynchronizedWithin1Hz ==
    call.op = "pc814_threephase_is_synchronized" =>
        ( status <=>
            /\ threephase.relationship.valid
            /\ \A f \in RelationshipFrequencies, g \in RelationshipFrequencies :
                   f - g <= 1 )

C23_Witness ==
    /\ call.op = "pc814_threephase_is_synchronized"
    /\ status = TRUE
    /\ threephase.relationship.valid
    /\ ToInt(threephase.relationship.phase_a_freq) = 50
    /\ ToInt(threephase.relationship.phase_b_freq) = 50
    /\ ToInt(threephase.relationship.phase_c_freq) = 51

\* the exponent of the unit in which two floats are both whole numbers
UnitOf(x, y) ==
    IF x.m = 0 THEN y.e ELSE IF y.m = 0 THEN x.e
    ELSE IF x.e < y.e THEN x.e ELSE y.e

\* a float as a whole number of units 2^k, k at most its exponent
InUnits(x, k) == IF x.m = 0 THEN 0 ELSE x.m * (2 ^ (x.e - k))

\* |x - y| < 360 / p exactly, for 0 < p and floats of at least 2^-25 or zero:
\* with k the unit and d = |x - y| in units, d * p < 360 * 2^-k
CloserThanOneMicrosecond(x, y, p) ==
    LET k == UnitOf(x, y)
        d == IF InUnits(x, k) < InUnits(y, k) THEN InUnits(y, k) - InUnits(x, k)
             ELSE InUnits(x, k) - InUnits(y, k)
        q == (45 * (2 ^ (0 - k))) \div p
        rem == (45 * (2 ^ (0 - k))) % p
    IN  \/ d < 8 * q
        \/ d - 8 * q < 8 /\ (d - 8 * q) * p < 8 * rem

\* C28: the round trip of the phase utilities: for an angle in [0, 360) and a
\* line frequency with a period of at least 1 us,
\* pc814_calc_phase_angle(pc814_calc_time_for_phase(angle, f), f) differs from
\* the angle by less than 360 / period_us degrees.
C28_PhaseRoundTrip ==
    ( /\ call.op = "pc814_calc_phase_angle"
      /\ F32Lt(call.phase_deg, F32FromInt(360))
      /\ call.line_freq # U32Zero
      /\ PeriodOfLine(call.line_freq) # U32Zero )
    => CloserThanOneMicrosecond(status, call.phase_deg,
                                ToInt(PeriodOfLine(call.line_freq)))

(***************************************************************************)
(* pc814_wait_for_zc, statement by statement: the main program polls the   *)
(* edge count while the capture interrupt runs pc814_process_capture       *)
(***************************************************************************)
\* the calls of pc814_wait_for_zc that a run follows
MaxWaitCalls == 1

\* the microseconds of a wait that are counted, and those of a wait without
\* timeout that a run follows
MaxWaitUs == 5000

\* get_time_us() / 1000, or the 0 that the locals keep where the port has no
\* get_time_us
MillisOf(p, now) == IF p.get_time_us THEN U32Div(now, U32(1000)) ELSE U32Zero

\* timeout_ms > 0 and (current_time - start_time) >= timeout_ms
TimedOut(timeout_ms, start_time, current_time) ==
    /\ timeout_ms # U32Zero
    /\ U32Le(timeout_ms, U32Sub(current_time, start_time))

\* the time that delay_ms(1) takes, or one turn of the loop without it
TurnUs(p) == IF p.delay_ms THEN U32(1000) ELSE p.spin_us

\* Ports of a wait: with and without get_time_us and delay_ms, the clock at
\* the start of the run at 0, at 1999 us (1 us before a millisecond) and 500 us
\* before it wraps, a busy turn of the loop taking 250 us.
WaitPortOf(clock, delay) ==
    [ timer_get_capture_value |-> TRUE, timer_get_frequency |-> TRUE,
      get_time_us |-> clock, delay_ms |-> delay,
      frequency |-> U32(100000),
      ticks |-> U32(2000),
      starts |-> IF clock THEN { U32Zero, U32(1999), <<65535, 65036>> }
                 ELSE { U32Zero },
      spin_us |-> U32(250),
      timeouts |-> { U32Zero, U32(1), U32(3) } ]

WaitPorts == { WaitPortOf(clock, delay) : clock \in BOOLEAN, delay \in BOOLEAN }

InitWait ==
    /\ port \in WaitPorts
    /\ \E pull_config \in {"PC814_PULL_UP"}, edge_type \in {"PC814_EDGE_RISING"} :
           handle = pc814_init(pull_config, edge_type)
    /\ status = PC814_OK
    /\ call = [op |-> "pc814_init"]
    /\ mean = ZeroMean
    /\ phases = InitPhases
    /\ threephase = pc814_threephase_init
    /\ time_us \in port.starts
    /\ task = Idle

\* the capture interrupt: pc814_process_capture on an edge of a 50 Hz line
WaitEdge ==
    /\ ToInt(handle.statistics.total_zc_count) < MaxSamples
    /\ Capture(IF handle.last_capture_value = U32Zero THEN U32(16)
               ELSE U32Add(handle.last_capture_value, port.ticks),
               port.frequency, time_us)

\* the call: last_count and start_time are read
WaitCall ==
    /\ task.pc = "idle"
    /\ task.calls < MaxWaitCalls
    /\ handle.initialized
    /\ \E timeout_ms \in port.timeouts :
         task' = [ pc |-> "while", calls |-> task.calls + 1,
                   timeout_ms |-> timeout_ms,
                   last_count |-> handle.data.count,
                   start_time |-> MillisOf(port, time_us),
                   waited |-> 0 ]
    /\ UNCHANGED <<port, handle, status, call, mean, phases, threephase, time_us>>

\* the condition of the loop and the test of the timeout
WaitPoll ==
    /\ task.pc = "while"
    /\ IF handle.data.count # task.last_count
       THEN /\ status' = PC814_OK
            /\ call' = [ op |-> "pc814_wait_for_zc", timeout_ms |-> task.timeout_ms,
                         waited |-> task.waited, changed |-> TRUE ]
            /\ task' = [pc |-> "idle", calls |-> task.calls]
       ELSE IF TimedOut(task.timeout_ms, task.start_time, MillisOf(port, time_us))
       THEN /\ status' = PC814_ERROR
            /\ call' = [ op |-> "pc814_wait_for_zc", timeout_ms |-> task.timeout_ms,
                         waited |-> task.waited, changed |-> FALSE ]
            /\ task' = [pc |-> "idle", calls |-> task.calls]
       ELSE /\ task' = [task EXCEPT !.pc = "delay"]
            /\ UNCHANGED <<status, call>>
    /\ UNCHANGED <<port, handle, mean, phases, threephase, time_us>>

\* delay_ms(1) where the port has it, and the next turn of the loop
WaitDelay ==
    /\ task.pc = "delay"
    /\ task.timeout_ms # U32Zero \/ task.waited < MaxWaitUs
    /\ time_us' = IF port.get_time_us THEN U32Add(time_us, TurnUs(port)) ELSE time_us
    /\ task' = [ task EXCEPT
                   !.pc = "while",
                   !.waited = IF @ + ToInt(TurnUs(port)) < MaxWaitUs
                              THEN @ + ToInt(TurnUs(port)) ELSE MaxWaitUs ]
    /\ UNCHANGED <<port, handle, status, call, mean, phases, threephase>>

NextWait == WaitEdge \/ WaitCall \/ WaitPoll \/ WaitDelay

\* the main program goes on running: a statement that can be executed is
\* executed; the edges of the line are not promised
SpecWait ==
    InitWait /\ [][NextWait]_vars /\ WF_vars(WaitPoll) /\ WF_vars(WaitDelay)

\* pc814_wait_for_zc is polling
Waiting == task.pc \in {"while", "delay"}

\* C24: pc814_wait_for_zc called with timeout_ms > 0 eventually returns, with
\* PC814_OK once the edge count has changed or with PC814_ERROR when no edge
\* arrives, on every port that pc814_init accepts; called with timeout_ms = 0
\* it returns only when the edge count has changed.
C24_WaitReturns ==
    /\ [](call.op = "pc814_wait_for_zc" =>
            /\ status = PC814_OK <=> call.changed
            /\ call.timeout_ms = U32Zero => call.changed)
    /\ (Waiting /\ task.timeout_ms # U32Zero) ~> (task.pc = "idle")

\* C30: pc814_wait_for_zc with timeout_ms > 0 returns the timeout error only
\* when timeout_ms milliseconds have really passed since the call without a
\* change of the edge count, to the millisecond that the division by 1000
\* drops (more than timeout_ms - 1 milliseconds), also when the 32-bit clock
\* wraps during the wait.
C30_TimeoutOnlyAfterTimeout ==
    (call.op = "pc814_wait_for_zc" /\ status = PC814_ERROR)
    => call.waited > (ToInt(call.timeout_ms) - 1) * 1000

(***************************************************************************)
(* pc814_threephase_process, its three pc814_read_data word by word: the   *)
(* main program copies the data of a handle while the capture interrupt of *)
(* that handle runs pc814_process_capture                                  *)
(***************************************************************************)
\* the passes of pc814_threephase_process that a run follows
MaxProcessCalls == 1

\* the words of pc814_data_t in the order of their addresses
DataFields == <<"period_us", "frequency_hz", "timestamp_us", "count", "valid">>

\* the order in which pc814_threephase_process reads the handles
ReadOrder == <<"a", "b", "c">>

\* A 100 kHz tick with periods of 20000 us and 19230 us, b 6667 us and c
\* 13333 us after a.
ReadPort ==
    [ timer_get_capture_value |-> TRUE, timer_get_frequency |-> TRUE,
      get_time_us |-> TRUE,
      frequency |-> U32(100000),
      ticks |-> { U32(2000), U32(1923) },
      first |-> [ a |-> { U32(100000) },
                  b |-> { U32(106667) },
                  c |-> { U32(113333) } ] ]

InitRead ==
    /\ port = ReadPort
    /\ \E pull_config \in {"PC814_PULL_UP"}, edge_type \in {"PC814_EDGE_RISING"} :
           handle = pc814_init(pull_config, edge_type)
    /\ status = PC814_OK
    /\ call = [op |-> "pc814_init"]
    /\ mean = ZeroMean
    /\ phases = InitPhases
    /\ threephase = pc814_threephase_init
    /\ time_us = U32Zero
    /\ task = Idle

\* the main program is copying the data of the handle of the phase id
Copying(id) == task.pc = "memcpy" /\ ReadOrder[task.phase] = id

\* the capture interrupt of one phase: it runs to its end between two
\* statements of the main program; task.versions are the values that the data
\* of the handle being copied has had since the copy began
ReadEdge ==
    /\ PhaseSamples < MaxPhaseSamples
    /\ \E id \in PhaseIds :
         /\ EdgeOfPhase(id)
         /\ task' = IF Copying(id)
                    THEN [task EXCEPT !.versions[id] = @ \cup {phases'[id].data}]
                    ELSE task
    /\ UNCHANGED <<port, handle, mean, threephase, time_us>>

\* the call, up to the first word of the memcpy of pc814_read_data(phase_a)
ProcessCall ==
    /\ task.pc = "idle"
    /\ task.calls < MaxProcessCalls
    /\ threephase.initialized
    /\ task' = [ pc |-> "memcpy", calls |-> task.calls + 1,
                 phase |-> 1, word |-> 1,
                 data |-> [id \in PhaseIds |-> ZeroData],
                 versions |-> [id \in PhaseIds |->
                                 IF id = ReadOrder[1] THEN {phases[id].data} ELSE {}] ]
    /\ UNCHANGED <<port, handle, status, call, mean, phases, threephase, time_us>>

\* what pc814_threephase_process does with the three copies
ProcessCopies(tp, ph, data) ==
    pc814_threephase_process(tp, [id \in PhaseIds |-> [ph[id] EXCEPT !.data = data[id]]])

\* one word of the memcpy; after the last word of a handle the test of its
\* valid flag, and after the third handle the rest of the pass
CopyWord ==
    /\ task.pc = "memcpy"
    /\ LET id == ReadOrder[task.phase]
           f == DataFields[task.word]
           data == [task.data EXCEPT ![id][f] = phases[id].data[f]]
       IN  IF task.word < Len(DataFields)
           THEN /\ task' = [task EXCEPT !.data = data, !.word = @ + 1]
                /\ UNCHANGED <<status, call, threephase>>
           ELSE IF ~data[id].valid
           THEN /\ status' = PC814_ERROR
                /\ call' = [ op |-> "pc814_threephase_process",
                             first |-> ~threephase.relationship.valid,
                             data |-> data, versions |-> task.versions ]
                /\ task' = [pc |-> "idle", calls |-> task.calls]
                /\ UNCHANGED threephase
           ELSE IF task.phase < Len(ReadOrder)
           THEN /\ task' = [ task EXCEPT
                               !.data = data, !.phase = @ + 1, !.word = 1,
                               !.versions[ReadOrder[task.phase + 1]] =
                                   {phases[ReadOrder[task.phase + 1]].data} ]
                /\ UNCHANGED <<status, call, threephase>>
           ELSE LET r == ProcessCopies(threephase, phases, data)
                IN  /\ threephase' = r.threephase
                    /\ status' = r.status
                    /\ call' = [ op |-> "pc814_threephase_process",
                                 first |-> ~threephase.relationship.valid,
                                 data |-> data, versions |-> task.versions ]
                    /\ task' = [pc |-> "idle", calls |-> task.calls]
    /\ UNCHANGED <<port, handle, mean, phases, time_us>>

NextRead == ReadEdge \/ ProcessCall \/ CopyWord

SpecRead == InitRead /\ [][NextRead]_vars

\* C25: the sample that pc814_threephase_process uses for a channel is a
\* consistent snapshot: its period_us, frequency_hz, timestamp_us and valid flag
\* are those that the data of the handle had together at one moment of the
\* read, also when pc814_process_capture of that channel runs in the middle of
\* the read.
C25_ConsistentSnapshot ==
    (call.op = "pc814_threephase_process" /\ status = PC814_OK)
    => \A id \in PhaseIds :
         \E v \in call.versions[id] :
           /\ v.period_us = call.data[id].period_us
           /\ v.frequency_hz = call.data[id].frequency_hz
           /\ v.timestamp_us = call.data[id].timestamp_us
           /\ v.valid = call.data[id].valid

=============================================================================
